---------------------------- MODULE Spec2Model ----------------------------
(***************************************************************************)
(* SharePoint Genie (SPFx application customizer with a chat side panel).  *)
(*                                                                         *)
(* Spec            the Chat component (Conversation Controller) with the   *)
(*                 service calls it makes: initSession / chat, each of     *)
(*                 which first awaits acquireToken (Token Provider), and   *)
(*                 the parent component's new-conversation action.         *)
(* SpecCustomizer  the application customizer: onInit, _renderPlaceholders *)
(*                 and _onDispose.                                         *)
(*                                                                         *)
(* Every await of the source is a step of the model; the part of a handler *)
(* between two awaits is one atomic action (single-threaded event loop).   *)
(* Handlers are modelled at the level of their own code: handleSend and    *)
(* setInput may be invoked whenever the Chat instance is mounted, and the  *)
(* handler's own guards decide what happens.                               *)
(***************************************************************************)
EXTENDS Naturals, Sequences, FiniteSets, TLC

VARIABLES
    \* ---- build-time configuration and the identity library's cache ----
    appConfig,            \* APP_CONFIG: which auth settings are present
    cachedAccount,        \* msal cache (localStorage) holds an account
    \* ---- SidebarAgentComponent state ----
    chatKey,
    \* ---- Chat state (useState / useRef) of the mounted instance ----
    messages, input, loading, error, attachments, sessionId,
    sessionInitializing, abortRef,
    \* ---- the service call of the mounted instance that is in flight ----
    callKind,             \* "none" | "init" | "chat"
    pc,                   \* where the call is suspended
    account,              \* acquireToken's local `account`
    token,                \* result of acquireToken
    trace,                \* identity-library calls of this acquireToken call, with outcomes
    req,                  \* what the call was started with
    \* ---- calls started by instances that have since been unmounted ----
    orphans,
    \* ---- history ----
    initSessionCalls,     \* number of initSession invocations in this page load
    last,                 \* the last step, when it was a send or a settled request:
                          \* <<"handleSend", outcome>>, <<"initSession", response>>,
                          \* <<"chat", response>>; NoStep after any other step
    \* ---- SidebarAgentApplicationCustomizer ----
    properties, initResult, handlerRegistered, topPlaceholder, reactContainer,
    treeMounted, placeholderAvailable, createCalls, renderCalls, unmountCalls,
    changedEvents, disposeCalls

chatVars == <<appConfig, cachedAccount, chatKey, messages, input, loading, error,
              attachments, sessionId, sessionInitializing, abortRef, callKind, pc,
              account, token, trace, req, orphans, initSessionCalls, last>>

custVars == <<properties, initResult, handlerRegistered, topPlaceholder,
              reactContainer, treeMounted, placeholderAvailable, createCalls,
              renderCalls, unmountCalls, changedEvents, disposeCalls>>

vars == <<chatVars, custVars>>

\* ------------------------------------------------------------------ bounds
MaxSends == 2
MaxChatKey == 1
MaxAttachments == 1
MaxSelected == 5
MaxEvents == 2
MaxDisposals == 2

\* ------------------------------------------------------------- value sets
None == "undefined"

\* user input: sequences of characters (the text area's value)
Inputs == { <<>>, <<" ">>, <<" ", "h", "e", "l", "l", "o", " ">> }

IsSpace(c) == c \in {" ", "\t", "\n"}

RECURSIVE TrimStart(_)
TrimStart(s) ==
    IF s = <<>> THEN <<>>
    ELSE IF IsSpace(Head(s)) THEN TrimStart(Tail(s)) ELSE s

RECURSIVE TrimEnd(_)
TrimEnd(s) ==
    IF s = <<>> THEN <<>>
    ELSE IF IsSpace(s[Len(s)]) THEN TrimEnd(SubSeq(s, 1, Len(s) - 1)) ELSE s

\* String.prototype.trim
Trim(s) == TrimEnd(TrimStart(s))

\* the settings acquireToken is called with (APP_CONFIG), fixed at build time
AppConfigs ==
    { [appClientId |-> TRUE,  tenantId |-> TRUE],
      [appClientId |-> FALSE, tenantId |-> TRUE],
      [appClientId |-> TRUE,  tenantId |-> FALSE] }

LoginPopupOutcomes == {"ok", "ok_no_account", "fail"}
SilentOutcomes == {"ok", "interaction_required", "other_error"}
TokenPopupOutcomes == {"ok", "fail"}

\* what the session endpoint may answer: fetch rejects, a non-2xx status, or
\* a 2xx status whose JSON body is null, has no sessionId, or has one
InitResponses == {"network_error", "not_ok", "null_body", "no_id", "sid"}

\* what the chat endpoint may answer
ChatResponses == {"network_error", "not_ok", "null_body", "empty_reply", "reply"}

\* the request of a call: chat.ts builds its fetch options without a signal
NoStep == <<"none", "none">>

NoReq == [sessionId |-> None, message |-> <<>>, signal |-> None]


Text(s) == <<s>>
NoResponse == Text("No response from service.")
ReplyText == Text("hi there")

ErrSessionNotInitialized == "Session not initialized."
ErrSessionInitFailed == "Session init failed."
ErrProcessing == "Error processing your request."

UserMessage(content) == [role |-> "user", content |-> content]
AssistantMessage(content) == [role |-> "assistant", content |-> content]

UserCount(log) == Cardinality({i \in 1..Len(log) : log[i].role = "user"})

\* --------------------------------------------------------- Token Provider
\* acquireToken, lines 11-13: the settings guard
SettingsMissing(settings) == ~settings.appClientId \/ ~settings.tenantId

\* acquireToken, lines 33-37: the cached account, or none
CachedAccountOf(cached) == IF cached THEN "acct" ELSE "null"

\* a loginPopup whose failure escapes acquireToken (no try/catch around it)
AfterLoginPopup_Throws(out) ==
    CASE out = "ok"            -> [pc |-> "acquireTokenSilent", account |-> "acct", token |-> "pending"]
      [] out = "ok_no_account" -> [pc |-> "acquireTokenSilent", account |-> "null", token |-> "pending"]
      [] OTHER                 -> [pc |-> "fetch", account |-> "null", token |-> "threw"]

\* acquireToken, lines 37-49: what follows loginPopup
AfterLoginPopup(out) ==
    CASE out = "ok"            -> [pc |-> "acquireTokenSilent", account |-> "acct", token |-> "pending"]
      [] out = "ok_no_account" -> [pc |-> "acquireTokenSilent", account |-> "null", token |-> "pending"]
      [] OTHER                 -> [pc |-> "fetch", account |-> "null", token |-> None]

\* a silent renewal that is tried again when interaction is required
AfterSilent_Retry(out) ==
    CASE out = "ok"                   -> [pc |-> "fetch", token |-> "tok_silent"]
      [] out = "interaction_required" -> [pc |-> "acquireTokenSilent", token |-> "pending"]
      [] OTHER                        -> [pc |-> "fetch", token |-> None]

\* a token prompt that is opened even though silent renewal succeeded
AfterSilent_AlwaysPrompt(out) ==
    CASE out \in {"ok", "interaction_required"} -> [pc |-> "acquireTokenPopup", token |-> "pending"]
      [] OTHER -> [pc |-> "fetch", token |-> None]

\* acquireToken, lines 52-77: what follows acquireTokenSilent
AfterSilent(out) ==
    CASE out = "ok"                   -> [pc |-> "fetch", token |-> "tok_silent"]
      [] out = "interaction_required" -> [pc |-> "acquireTokenPopup", token |-> "pending"]
      [] OTHER                        -> [pc |-> "fetch", token |-> None]

\* acquireToken, lines 64-74: what follows acquireTokenPopup
AfterTokenPopup(out) ==
    IF out = "ok" THEN [pc |-> "fetch", token |-> "tok_popup"]
    ELSE [pc |-> "fetch", token |-> None]

\* the identity library refuses a silent request that names no account
SilentOutcomesFor(acct) ==
    IF acct = "null" THEN {"other_error"} ELSE SilentOutcomes

CallUnchangedChat ==
    UNCHANGED <<appConfig, chatKey, messages, input, loading, error, attachments,
                sessionId, sessionInitializing, abortRef, callKind, req, orphans,
                initSessionCalls, custVars>>

\* acquireToken up to its first await of the identity library
acquireToken ==
    /\ callKind # "none" /\ pc = "acquireToken"
    /\ IF SettingsMissing(appConfig)
         THEN /\ token' = None
              /\ pc' = "fetch"
              /\ UNCHANGED <<account, trace>>
         ELSE /\ account' = CachedAccountOf(cachedAccount)
              /\ trace' = Append(trace, <<"getAllAccounts", account'>>)
              /\ pc' = IF account' = "null" THEN "loginPopup" ELSE "acquireTokenSilent"
              /\ token' = "pending"
    /\ last' = NoStep
    /\ UNCHANGED cachedAccount
    /\ CallUnchangedChat

loginPopup(out) ==
    /\ callKind # "none" /\ pc = "loginPopup"
    /\ trace' = Append(trace, <<"loginPopup", out>>)
    /\ LET n == AfterLoginPopup(out) IN
         /\ pc' = n.pc
         /\ account' = n.account
         /\ token' = n.token
    /\ cachedAccount' = (cachedAccount \/ out = "ok")
    /\ last' = NoStep
    /\ CallUnchangedChat

acquireTokenSilent(out) ==
    /\ callKind # "none" /\ pc = "acquireTokenSilent"
    /\ out \in SilentOutcomesFor(account)
    /\ trace' = Append(trace, <<"acquireTokenSilent", out>>)
    /\ LET n == AfterSilent(out) IN
         /\ pc' = n.pc
         /\ token' = n.token
    /\ last' = NoStep
    /\ UNCHANGED <<account, cachedAccount>>
    /\ CallUnchangedChat

acquireTokenPopup(out) ==
    /\ callKind # "none" /\ pc = "acquireTokenPopup"
    /\ trace' = Append(trace, <<"acquireTokenPopup", out>>)
    /\ LET n == AfterTokenPopup(out) IN
         /\ pc' = n.pc
         /\ token' = n.token
    /\ last' = NoStep
    /\ UNCHANGED <<account, cachedAccount>>
    /\ CallUnchangedChat


\* ------------------------------------------------- Session Initializer
\* initSession: the awaited token, then one POST; a rejected token promise or
\* fetch, or a non-2xx status, rejects; otherwise the parsed body is returned
InitSessionResult(tok, resp) ==
    IF tok = "threw" \/ resp \in {"network_error", "not_ok"}
      THEN [threw |-> TRUE, isNull |-> FALSE, sessionId |-> None]
      ELSE [threw |-> FALSE,
            isNull |-> (resp = "null_body"),
            sessionId |-> IF resp = "sid" THEN "abc" ELSE None]

\* chat without its status check (chat.ts lines 24-26 left out)
ChatResult_NoStatusCheck(tok, resp) ==
    IF tok = "threw" THEN [threw |-> TRUE, name |-> "BrowserAuthError", isNull |-> FALSE, reply |-> <<>>]
    ELSE IF resp = "network_error" THEN [threw |-> TRUE, name |-> "TypeError", isNull |-> FALSE, reply |-> <<>>]
    ELSE [threw |-> FALSE, name |-> None,
          isNull |-> (resp = "null_body"),
          reply |-> IF resp = "reply" THEN ReplyText ELSE <<>>]

\* ------------------------------------------------------------ Chat Client
\* chat: the awaited token, then one POST; rejects as initSession does
ChatResult(tok, resp) ==
    IF tok = "threw" THEN [threw |-> TRUE, name |-> "BrowserAuthError", isNull |-> FALSE, reply |-> <<>>]
    ELSE IF resp = "network_error" THEN [threw |-> TRUE, name |-> "TypeError", isNull |-> FALSE, reply |-> <<>>]
    ELSE IF resp = "not_ok" THEN [threw |-> TRUE, name |-> "Error", isNull |-> FALSE, reply |-> <<>>]
    ELSE [threw |-> FALSE, name |-> None,
          isNull |-> (resp = "null_body"),
          reply |-> IF resp = "reply" THEN ReplyText ELSE <<>>]

\* ------------------------------------------------ Conversation Controller
\* the state of a Chat instance after its first render and its mount effect
ChatMounted(m, i, l, e, a, s, si, ab) ==
    /\ m = <<>>
    /\ i = <<>>
    /\ l = FALSE
    /\ e = None
    /\ a = <<>>
    /\ s = None
    /\ si = TRUE
    /\ ab = "null"

\* a mount effect that starts no session initialisation
InitCallsAfterMount_NoInit(n) == n

\* the mount effect's `init()`: one initSession call per mount
InitCallsAfterMount(n) == n + 1

\* an init() without its finally block: a rejected initSession leaves the
\* controller initializing
InitEffects_NoFinally(isMounted, r, e, s, si) ==
    IF ~isMounted THEN [error |-> e, sessionId |-> s, sessionInitializing |-> si]
    ELSE IF r.threw THEN [error |-> ErrSessionInitFailed, sessionId |-> s, sessionInitializing |-> si]
    ELSE IF r.isNull THEN [error |-> ErrSessionNotInitialized, sessionId |-> s, sessionInitializing |-> FALSE]
    ELSE [error |-> e, sessionId |-> r.sessionId, sessionInitializing |-> FALSE]

\* init(), after `await initSession(...)`: the state updates it makes
InitEffects(isMounted, r, e, s, si) ==
    IF ~isMounted THEN [error |-> e, sessionId |-> s, sessionInitializing |-> si]
    ELSE IF r.threw THEN [error |-> ErrSessionInitFailed, sessionId |-> s, sessionInitializing |-> FALSE]
    ELSE IF r.isNull THEN [error |-> ErrSessionNotInitialized, sessionId |-> s, sessionInitializing |-> FALSE]
    ELSE [error |-> e, sessionId |-> r.sessionId, sessionInitializing |-> FALSE]

ResetCall ==
    /\ callKind' = "none"
    /\ pc' = "idle"
    /\ account' = "null"
    /\ token' = "pending"
    /\ trace' = <<>>
    /\ req' = NoReq

StartCall(kind, request) ==
    /\ callKind' = kind
    /\ pc' = "acquireToken"
    /\ account' = "null"
    /\ token' = "pending"
    /\ trace' = <<>>
    /\ req' = request

\* the session-init request of the mounted instance settles
initSession(resp) ==
    /\ callKind = "init" /\ pc = "fetch"
    /\ LET n == InitEffects(TRUE, InitSessionResult(token, resp),
                            error, sessionId, sessionInitializing) IN
         /\ error' = n.error
         /\ sessionId' = n.sessionId
         /\ sessionInitializing' = n.sessionInitializing
    /\ ResetCall
    /\ last' = <<"initSession", resp>>
    /\ UNCHANGED <<appConfig, cachedAccount, chatKey, messages, input, loading,
                   attachments, abortRef, orphans, initSessionCalls, custVars>>

\* handleSend without its session check (lines 90-93 left out)
SendOutcome_NoSessionCheck(i, l, s) ==
    IF Trim(i) = <<>> THEN "blank"
    ELSE IF l THEN "busy"
    ELSE "accepted"

\* handleSend, lines 88-93: which way the handler goes
SendOutcome(i, l, s) ==
    IF Trim(i) = <<>> THEN "blank"
    ELSE IF l THEN "busy"
    ELSE IF s = None THEN "no_session"
    ELSE "accepted"

\* a handler that sets the log to the reply instead of appending to it
SendEffects_Overwrite(r, m, e) ==
    IF ~r.threw /\ ~r.isNull
      THEN [messages |-> <<AssistantMessage(IF r.reply # <<>> THEN r.reply ELSE NoResponse)>>,
            error |-> e]
      ELSE [messages |-> m, error |-> ErrProcessing]

\* handleSend, lines 123-128: the log and the error after the call settled
SendEffects(r, m, e) ==
    IF ~r.threw /\ ~r.isNull
      THEN [messages |-> Append(m, AssistantMessage(IF r.reply # <<>> THEN r.reply ELSE NoResponse)),
            error |-> e]
      ELSE LET name == IF r.threw THEN r.name ELSE "TypeError" IN
           IF name = "AbortError" THEN [messages |-> m, error |-> e]
           ELSE [messages |-> m, error |-> ErrProcessing]

\* a handler that does not reset the loading flag
LoadingAfterSettle_Stuck == TRUE

\* handleSend, line 130: the finally block
LoadingAfterSettle == FALSE

\* a handler that keeps the attachment list over a send
AttachmentsAfterSend_Kept(a) == a

\* handleSend, line 107: setAttachments([])
AttachmentsAfterSend(a) == <<>>

handleSend ==
    /\ last' = <<"handleSend", SendOutcome(input, loading, sessionId)>>
    /\ CASE last'[2] \in {"blank", "busy"} ->
              UNCHANGED <<messages, input, loading, error, attachments, abortRef,
                          callKind, pc, account, token, trace, req>>
         [] last'[2] = "no_session" ->
              /\ error' = ErrSessionNotInitialized
              /\ UNCHANGED <<messages, input, loading, attachments, abortRef,
                             callKind, pc, account, token, trace, req>>
         [] OTHER ->
              /\ UserCount(messages) < MaxSends
              /\ error' = None
              /\ messages' = Append(messages, UserMessage(Trim(input)))
              /\ input' = <<>>
              /\ attachments' = AttachmentsAfterSend(attachments)
              /\ loading' = TRUE
              /\ abortRef' = "controller"
              /\ StartCall("chat", [sessionId |-> sessionId, message |-> Trim(input),
                                    signal |-> None])
    /\ UNCHANGED <<appConfig, cachedAccount, chatKey, sessionId, sessionInitializing,
                   orphans, initSessionCalls, custVars>>

\* the chat request of the mounted instance settles (handleSend, lines 115-133)
chat(resp) ==
    /\ callKind = "chat" /\ pc = "fetch"
    /\ LET n == SendEffects(ChatResult(token, resp), messages, error) IN
         /\ messages' = n.messages
         /\ error' = n.error
    /\ loading' = LoadingAfterSettle
    /\ ResetCall
    /\ last' = <<"chat", resp>>
    /\ UNCHANGED <<appConfig, cachedAccount, chatKey, input, attachments, sessionId,
                   sessionInitializing, abortRef, orphans, initSessionCalls, custVars>>

setInput(v) ==
    /\ input' = v
    /\ last' = NoStep
    /\ UNCHANGED <<appConfig, cachedAccount, chatKey, messages, loading, error,
                   attachments, sessionId, sessionInitializing, abortRef, callKind,
                   pc, account, token, trace, req, orphans, initSessionCalls, custVars>>


\* ------------------------------------------------------------ attachments
maxFiles == 5
maxSize == 200 * 1024
maxTextLen == 8000
supported == {"text/plain", "application/json", "text/markdown"}

Min(a, b) == IF a <= b THEN a ELSE b

\* String.prototype.toLowerCase on the extensions used here (the /i flag)
LowerExt(ext) ==
    CASE ext = "TXT" -> "txt"
      [] ext = "MD" -> "md"
      [] ext = "JSON" -> "json"
      [] OTHER -> ext

\* /\.(txt|md|json)$/i.test(f.name)
ExtensionMatches(name) == LowerExt(name.ext) \in {"txt", "md", "json"}

\* onSelectFiles, lines 150-153: whether the file's text is read
Extractable(f) ==
    f.size <= maxSize /\ (f.type \in supported \/ ExtensionMatches(f.name))

NoText == [has |-> FALSE, len |-> 0]

\* an entry whose text is read whatever the file's size and kind
Meta_ReadsAll(f, i, now) ==
    [id |-> <<now, i, f.name>>, name |-> f.name, size |-> f.size, type |-> f.type,
     text |-> IF f.readable
                THEN [has |-> TRUE, len |-> Min(f.textLen, maxTextLen)]
                ELSE NoText]

\* onSelectFiles, lines 144-160: the entry pushed for file i (0-based) of the list;
\* a text is modelled by its length
Meta(f, i, now) ==
    [id |-> <<now, i, f.name>>, name |-> f.name, size |-> f.size, type |-> f.type,
     text |-> IF Extractable(f) /\ f.readable
                THEN [has |-> TRUE, len |-> Min(f.textLen, maxTextLen)]
                ELSE NoText]

\* onSelectFiles, lines 141-161: the loop pushes every file it visits, so it
\* visits the first maxFiles files
Collected(fileList, now) ==
    [k \in 1..Min(Len(fileList), maxFiles) |-> Meta(fileList[k], k - 1, now)]

bigTxt ==
    [name |-> [base |-> "big", ext |-> "txt"], size |-> 300 * 1024, type |-> "text/plain",
     textLen |-> 300 * 1024, readable |-> TRUE]
smallTxt ==
    [name |-> [base |-> "notes", ext |-> "txt"], size |-> 1024, type |-> "",
     textLen |-> 1024, readable |-> TRUE]

FileLists == { <<smallTxt>>, <<bigTxt>> }
Times == {1}

\* a 200 KB JSON file, exactly at the size limit, longer than the text cap
limitJson ==
    [name |-> [base |-> "data", ext |-> "json"], size |-> 200 * 1024,
     type |-> "application/json", textLen |-> 200 * 1024, readable |-> TRUE]
\* one byte over the size limit
overJson ==
    [name |-> [base |-> "more", ext |-> "json"], size |-> 200 * 1024 + 1,
     type |-> "application/json", textLen |-> 200 * 1024 + 1, readable |-> TRUE]
\* neither the MIME type nor the extension is on the allow-list
picture ==
    [name |-> [base |-> "logo", ext |-> "png"], size |-> 2048, type |-> "image/png",
     textLen |-> 2048, readable |-> TRUE]
\* no MIME type, an upper-case extension
upperMd ==
    [name |-> [base |-> "README", ext |-> "MD"], size |-> 9000, type |-> "",
     textLen |-> 9000, readable |-> TRUE]
\* f.text() rejects
lockedTxt ==
    [name |-> [base |-> "locked", ext |-> "txt"], size |-> 512, type |-> "text/plain",
     textLen |-> 512, readable |-> FALSE]

\* selections of one to six files
FileBatches ==
    FileLists \cup
    { <<limitJson, picture>>,
      <<upperMd, lockedTxt, overJson>>,
      <<smallTxt, bigTxt, limitJson, picture, upperMd, lockedTxt>> }

onSelectFiles(fileList, now) ==
    /\ attachments' = attachments \o Collected(fileList, now)
    /\ last' = NoStep
    /\ UNCHANGED <<appConfig, cachedAccount, chatKey, messages, input, loading, error,
                   sessionId, sessionInitializing, abortRef, callKind, pc, account,
                   token, trace, req, orphans, initSessionCalls, custVars>>

removeAttachment(id) ==
    /\ \E k \in 1..Len(attachments) : attachments[k].id = id
    /\ attachments' = SelectSeq(attachments, LAMBDA a : a.id # id)
    /\ last' = NoStep
    /\ UNCHANGED <<appConfig, cachedAccount, chatKey, messages, input, loading, error,
                   sessionId, sessionInitializing, abortRef, callKind, pc, account,
                   token, trace, req, orphans, initSessionCalls, custVars>>

\* ------------------------------------------------- SidebarAgentComponent
\* a Chat instance mounts: fresh state, and its mount effect starts init()
ChatMount ==
    /\ ChatMounted(messages', input', loading', error', attachments', sessionId',
                   sessionInitializing', abortRef')
    /\ initSessionCalls' = InitCallsAfterMount(initSessionCalls)
    /\ StartCall("init", NoReq)

\* the side panel renders Chat keyed by chatKey: a new key unmounts the old
\* instance (its cleanup clears isMounted; a call it has in flight goes on
\* without it) and mounts a new one
ChatRemount ==
    /\ orphans' = IF callKind # "none" THEN orphans + 1 ELSE orphans
    /\ ChatMount

\* chatKey + 1
NextChatKey(k) == k + 1

_startNewConversation ==
    /\ chatKey < MaxChatKey
    /\ chatKey' = NextChatKey(chatKey)
    /\ ChatRemount
    /\ last' = NoStep
    /\ UNCHANGED <<appConfig, cachedAccount, custVars>>

\* a call of an unmounted instance settles: init() finds isMounted false and
\* sets nothing; a state update of an unmounted component is dropped
orphanSettles(resp) ==
    /\ orphans > 0
    /\ orphans' = orphans - 1
    /\ LET n == InitEffects(FALSE, InitSessionResult(None, resp),
                            error, sessionId, sessionInitializing) IN
         /\ error' = n.error
         /\ sessionId' = n.sessionId
         /\ sessionInitializing' = n.sessionInitializing
    /\ cachedAccount' \in {cachedAccount, TRUE}
    /\ last' = NoStep
    /\ UNCHANGED <<appConfig, chatKey, messages, input, loading, attachments, abortRef,
                   callKind, pc, account, token, trace, req, initSessionCalls, custVars>>

\* ----------------------------------------------------------- specification
ValidProperties ==
    [appClientId |-> TRUE, tenantId |-> TRUE, directConnectUrl |-> TRUE,
     agentIdentifier |-> FALSE, environmentId |-> FALSE]

\* the customizer has initialised and rendered the tree that holds the chat
CustomizerRendered ==
    /\ properties = ValidProperties
    /\ initResult = "resolved"
    /\ handlerRegistered = TRUE
    /\ topPlaceholder = "content"
    /\ reactContainer = "div"
    /\ treeMounted = TRUE
    /\ placeholderAvailable = TRUE
    /\ createCalls = 1
    /\ renderCalls = 1
    /\ unmountCalls = 0
    /\ changedEvents = 0
    /\ disposeCalls = 0

Init ==
    /\ appConfig \in AppConfigs
    /\ cachedAccount \in BOOLEAN
    /\ chatKey = 0
    /\ ChatMounted(messages, input, loading, error, attachments, sessionId,
                   sessionInitializing, abortRef)
    /\ initSessionCalls = InitCallsAfterMount(0)
    /\ callKind = "init" /\ pc = "acquireToken" /\ account = "null"
    /\ token = "pending" /\ trace = <<>> /\ req = NoReq
    /\ orphans = 0
    /\ last = NoStep
    /\ CustomizerRendered

Next ==
    \/ acquireToken
    \/ \E out \in LoginPopupOutcomes : loginPopup(out)
    \/ \E out \in SilentOutcomes : acquireTokenSilent(out)
    \/ \E out \in TokenPopupOutcomes : acquireTokenPopup(out)
    \/ \E resp \in InitResponses : initSession(resp)
    \/ \E resp \in ChatResponses : chat(resp)
    \/ handleSend
    \/ \E v \in Inputs : setInput(v)
    \/ \E fl \in FileLists, now \in Times :
          /\ Len(attachments) + Len(Collected(fl, now)) <= MaxAttachments
          /\ onSelectFiles(fl, now)
    \/ \E k \in 1..Len(attachments) : removeAttachment(attachments[k].id)
    \/ _startNewConversation
    \/ \E resp \in InitResponses : orphanSettles(resp)

Spec == Init /\ [][Next]_vars

\* the attachment list of a mounted Chat under selections of several files
NextFiles ==
    \/ \E fl \in FileBatches, now \in Times :
          /\ Len(attachments) + Len(Collected(fl, now)) <= MaxSelected
          /\ onSelectFiles(fl, now)
    \/ \E k \in 1..Len(attachments) : removeAttachment(attachments[k].id)

\* a page load whose configuration is complete and whose account is cached
InitFiles ==
    /\ Init
    /\ appConfig = [appClientId |-> TRUE, tenantId |-> TRUE]
    /\ cachedAccount = TRUE

SpecFiles == InitFiles /\ [][NextFiles]_vars


\* ------------------------------------ SidebarAgentApplicationCustomizer
AllProperties ==
    [appClientId : BOOLEAN, tenantId : BOOLEAN, directConnectUrl : BOOLEAN,
     agentIdentifier : BOOLEAN, environmentId : BOOLEAN]

\* onInit rejecting only when appClientId and tenantId are both missing
MissingRequired_Both(p) ==
    \/ (~p.appClientId /\ ~p.tenantId)
    \/ (~p.directConnectUrl /\ (~p.agentIdentifier \/ ~p.environmentId))

\* onInit, lines 231-254: the two checks that reject
MissingRequired(p) ==
    \/ ~p.appClientId \/ ~p.tenantId
    \/ (~p.directConnectUrl /\ (~p.agentIdentifier \/ ~p.environmentId))

\* SidebarAgentComponent.render, lines 75-79
hasRequiredProps(p) ==
    p.appClientId /\ p.tenantId /\ (p.directConnectUrl \/ (p.agentIdentifier /\ p.environmentId))

\* placeholderProvider.tryCreateContent(PlaceholderName.Top, ...)
TryCreateContent(avail, dom) ==
    IF ~avail THEN None ELSE IF dom THEN "content" ELSE "content_no_dom"

\* a handler without the `if (!this._topPlaceholder)` test: every call creates
\* the content again
_renderPlaceholders_NoGuard(dom) ==
    LET c == TryCreateContent(placeholderAvailable, dom) IN
      /\ topPlaceholder' = c
      /\ createCalls' = IF c # None THEN createCalls + 1 ELSE createCalls
      /\ IF c = "content"
           THEN /\ reactContainer' = "div"
                /\ treeMounted' = TRUE
                /\ renderCalls' = renderCalls + 1
           ELSE UNCHANGED <<reactContainer, treeMounted, renderCalls>>

_renderPlaceholders(dom) ==
    IF topPlaceholder = None
      THEN LET c == TryCreateContent(placeholderAvailable, dom) IN
           /\ topPlaceholder' = c
           /\ createCalls' = IF c # None THEN createCalls + 1 ELSE createCalls
           /\ IF c = "content"
                THEN /\ reactContainer' = "div"
                     /\ treeMounted' = TRUE
                     /\ renderCalls' = renderCalls + 1
                ELSE UNCHANGED <<reactContainer, treeMounted, renderCalls>>
      ELSE UNCHANGED <<topPlaceholder, createCalls, reactContainer, treeMounted, renderCalls>>

onInit(dom) ==
    /\ initResult = "pending"
    /\ IF MissingRequired(properties)
         THEN /\ initResult' = "rejected"
              /\ UNCHANGED <<handlerRegistered, topPlaceholder, createCalls,
                             reactContainer, treeMounted, renderCalls>>
         ELSE /\ handlerRegistered' = TRUE
              /\ _renderPlaceholders(dom)
              /\ initResult' = "resolved"
    /\ UNCHANGED <<properties, placeholderAvailable, unmountCalls, changedEvents,
                   disposeCalls, chatVars>>

\* the host raises placeholderProvider.changedEvent
placeholderChanged(dom) ==
    /\ changedEvents < MaxEvents
    /\ changedEvents' = changedEvents + 1
    /\ IF handlerRegistered
         THEN _renderPlaceholders(dom)
         ELSE UNCHANGED <<topPlaceholder, createCalls, reactContainer, treeMounted,
                          renderCalls>>
    /\ UNCHANGED <<properties, initResult, handlerRegistered, placeholderAvailable,
                   unmountCalls, disposeCalls, chatVars>>

\* the page gains or loses its Top placeholder
placeholderAvailability ==
    /\ placeholderAvailable' = ~placeholderAvailable
    /\ UNCHANGED <<properties, initResult, handlerRegistered, topPlaceholder,
                   reactContainer, treeMounted, createCalls, renderCalls,
                   unmountCalls, changedEvents, disposeCalls, chatVars>>

\* the host disposes the placeholder content it handed out
_onDispose ==
    /\ topPlaceholder # None
    /\ disposeCalls < MaxDisposals
    /\ disposeCalls' = disposeCalls + 1
    /\ IF reactContainer # None
         THEN /\ treeMounted' = FALSE
              /\ unmountCalls' = unmountCalls + 1
              /\ reactContainer' = None
         ELSE UNCHANGED <<treeMounted, unmountCalls, reactContainer>>
    /\ UNCHANGED <<properties, initResult, handlerRegistered, topPlaceholder,
                   placeholderAvailable, createCalls, renderCalls, changedEvents,
                   chatVars>>

\* no Chat instance exists before the customizer has rendered
NoChat ==
    /\ appConfig \in {[appClientId |-> TRUE, tenantId |-> TRUE]}
    /\ cachedAccount = FALSE
    /\ chatKey = 0
    /\ messages = <<>> /\ input = <<>> /\ loading = FALSE /\ error = None
    /\ attachments = <<>> /\ sessionId = None /\ sessionInitializing = FALSE
    /\ abortRef = "null"
    /\ callKind = "none" /\ pc = "idle" /\ account = "null"
    /\ token = "pending" /\ trace = <<>> /\ req = NoReq
    /\ orphans = 0
    /\ initSessionCalls = 0
    /\ last = NoStep

InitCustomizer ==
    /\ properties \in AllProperties
    /\ initResult = "pending"
    /\ handlerRegistered = FALSE
    /\ topPlaceholder = None
    /\ reactContainer = None
    /\ treeMounted = FALSE
    /\ placeholderAvailable \in BOOLEAN
    /\ createCalls = 0
    /\ renderCalls = 0
    /\ unmountCalls = 0
    /\ changedEvents = 0
    /\ disposeCalls = 0
    /\ NoChat

NextCustomizer ==
    \/ \E dom \in BOOLEAN : onInit(dom)
    \/ \E dom \in BOOLEAN : placeholderChanged(dom)
    \/ placeholderAvailability
    \/ _onDispose

SpecCustomizer == InitCustomizer /\ [][NextCustomizer]_vars


\* =================================================================== claims
IsSend(step) == step[1] = "handleSend"

\* C1: no chat request is ever issued while the controller's sessionId is
\* unset (a request in flight carries the controller's session handle), and a
\* send made without a session handle starts no request and leaves the message
\* log, the loading flag and the attachments as they were; when it gets past
\* the blank-input and loading guards it sets 'Session not initialized.'.
C1_NoChatWithoutSession ==
    [][ /\ (callKind = "chat" => sessionId # None /\ req.sessionId = sessionId)
        /\ (callKind' = "chat" => sessionId' # None /\ req'.sessionId = sessionId')
        /\ (IsSend(last') /\ sessionId = None =>
              /\ callKind' = callKind /\ pc' = pc /\ req' = req
              /\ messages' = messages
              /\ loading' = loading
              /\ attachments' = attachments
              /\ (Trim(input) # <<>> /\ ~loading => error' = ErrSessionNotInitialized)) ]_vars

\* a send was refused for want of a session, with attachments pending
C1_Witness ==
    /\ last = <<"handleSend", "no_session">>
    /\ sessionId = None
    /\ error = ErrSessionNotInitialized
    /\ attachments # <<>>
    /\ messages = <<>> /\ ~loading /\ callKind = "none"

\* C2 (as claimed): a non-blank send made while a chat request is in flight
\* supersedes it: the user's message is appended and a new request is started
\* in place of the one in flight, which is cancelled.
C2_SendSupersedesInFlight ==
    [][ (IsSend(last') /\ Trim(input) # <<>> /\ callKind = "chat") =>
          /\ messages' = Append(messages, UserMessage(Trim(input)))
          /\ callKind' = "chat" /\ pc' = "acquireToken" ]_vars

C4_NonSuccessLeavesUserMessage ==
    [][ last' = <<"chat", "not_ok">> =>
          /\ messages' = messages
          /\ messages # <<>>
          /\ messages[Len(messages)] = UserMessage(req.message)
          /\ error' = ErrProcessing
          /\ loading /\ ~loading'
          /\ callKind' = "none"
          /\ SendOutcome(<<"x">>, loading', sessionId') = "accepted" ]_vars

\* a non-2xx answer has been handled
C4_Witness ==
    /\ last = <<"chat", "not_ok">>
    /\ error = ErrProcessing
    /\ ~loading
    /\ messages # <<>> /\ messages[Len(messages)].role = "user"


\* ---- the identity-library calls of the acquireToken call in progress
Made(name) == {k \in 1..Len(trace) : trace[k][1] = name}
MadeWith(name, out) == {k \in 1..Len(trace) : trace[k] = <<name, out>>}
Returned == callKind # "none" /\ pc = "fetch"

\* C5: in one acquireToken call, silent renewal is attempted at most once and
\* nothing is attempted twice; a token prompt is opened only directly after a
\* silent renewal that failed with interaction-required, and after such a
\* failure exactly one prompt is opened, upon which the call returns that
\* prompt's token or 'unavailable'.
C5_OneInteractiveFallback ==
    /\ Cardinality(Made("loginPopup")) <= 1
    /\ Cardinality(Made("acquireTokenSilent")) <= 1
    /\ Cardinality(Made("acquireTokenPopup")) <= 1
    /\ \A k \in Made("acquireTokenPopup") :
          k > 1 /\ trace[k - 1] = <<"acquireTokenSilent", "interaction_required">>
    /\ \A k \in MadeWith("acquireTokenSilent", "interaction_required") :
          \/ /\ pc = "acquireTokenPopup" /\ token = "pending" /\ k = Len(trace)
          \/ /\ Returned /\ Len(trace) = k + 1
             /\ \/ trace[k + 1] = <<"acquireTokenPopup", "ok">> /\ token = "tok_popup"
                \/ trace[k + 1] = <<"acquireTokenPopup", "fail">> /\ token = None

\* silent renewal asked for interaction, the prompt was opened and gave a token
C5_Witness ==
    /\ Returned
    /\ MadeWith("acquireTokenSilent", "interaction_required") # {}
    /\ MadeWith("acquireTokenPopup", "ok") # {}
    /\ token = "tok_popup"

\* C6: in one acquireToken call that found a cached account and whose silent
\* renewal succeeded, the call has returned the silently acquired token and
\* has opened neither loginPopup nor acquireTokenPopup.
C6_SilentSuccessNoPrompt ==
    (MadeWith("getAllAccounts", "acct") # {} /\ MadeWith("acquireTokenSilent", "ok") # {}) =>
        /\ Returned
        /\ token = "tok_silent"
        /\ Made("loginPopup") = {}
        /\ Made("acquireTokenPopup") = {}

\* a call with a cached account returned the silently acquired token
C6_Witness ==
    /\ Returned
    /\ trace = << <<"getAllAccounts", "acct">>, <<"acquireTokenSilent", "ok">> >>
    /\ token = "tok_silent"

C8_MissingConfigMountsNothing ==
    (\/ ~properties.appClientId
     \/ ~properties.tenantId
     \/ (~properties.directConnectUrl
           /\ (~properties.agentIdentifier \/ ~properties.environmentId))) =>
        /\ initResult \in {"pending", "rejected"}
        /\ ~handlerRegistered
        /\ topPlaceholder = None /\ createCalls = 0
        /\ reactContainer = None /\ ~treeMounted /\ renderCalls = 0

\* onInit rejected for a missing tenantId, and placeholder events followed
C8_Witness ==
    /\ properties.appClientId /\ ~properties.tenantId /\ properties.directConnectUrl
    /\ initResult = "rejected"
    /\ placeholderAvailable
    /\ changedEvents >= 1
    /\ ~treeMounted

\* C9 (as claimed): a session-init or chat call whose acquireToken returned
\* 'unavailable' yields nothing: when it settles it sets no session handle and
\* appends no assistant message.
C9_NoTokenNoResult ==
    [][ (Returned /\ token = None /\ last'[1] \in {"initSession", "chat"}) =>
          /\ sessionId' = sessionId
          /\ messages' = messages ]_vars

\* C10: the controller is Sending (loading) exactly while a chat request of
\* its own is in flight: an accepted send takes it from not loading to loading,
\* the settling of that request, by a reply or by an error, takes it back, and
\* a send made while loading changes neither the log nor the request.
C10_SendingWhileInFlight ==
    [][ /\ (loading <=> callKind = "chat")
        /\ (loading' <=> callKind' = "chat")
        /\ (last' = <<"handleSend", "accepted">> => ~loading /\ loading')
        /\ (last'[1] = "chat" => loading /\ ~loading')
        /\ (IsSend(last') /\ loading =>
              UNCHANGED <<messages, loading, callKind, pc, req, token, trace>>) ]_vars

\* a send was made, and refused, while a request was in flight
C10_Witness ==
    /\ last = <<"handleSend", "busy">>
    /\ loading
    /\ callKind = "chat" /\ pc = "fetch"


\* C11: a mounted controller is Initializing exactly while its one session-init
\* request is in flight (one request per mount); when the request settles the
\* controller leaves Initializing: a returned handle becomes sessionId, while a
\* rejection or an empty result leaves sessionId unset and shows an error; and
\* within a mount only that settling ever sets a session handle, so that once
\* initialisation has ended without one, none is ever set.
C11_InitializingUntilSettled ==
    [][ /\ (sessionInitializing <=> callKind = "init")
        /\ (sessionInitializing' <=> callKind' = "init")
        /\ initSessionCalls' = chatKey' + 1
        /\ (last'[1] = "initSession" =>
              /\ sessionInitializing /\ ~sessionInitializing'
              /\ sessionId = None
              /\ CASE last'[2] = "sid" -> sessionId' = "abc" /\ error' = error
                   [] last'[2] = "no_id" -> sessionId' = None /\ error' = error
                   [] last'[2] = "null_body" ->
                        sessionId' = None /\ error' = ErrSessionNotInitialized
                   [] OTHER -> sessionId' = None /\ error' = ErrSessionInitFailed)
        /\ (chatKey' = chatKey /\ sessionId' # sessionId =>
              last' = <<"initSession", "sid">>)
        /\ (chatKey' = chatKey /\ ~sessionInitializing /\ sessionId = None =>
              sessionId' = None /\ ~sessionInitializing' /\ callKind' = "none") ]_vars

\* session initialisation was answered with a non-2xx status
C11_Witness ==
    /\ last = <<"initSession", "not_ok">>
    /\ ~sessionInitializing
    /\ sessionId = None
    /\ error = ErrSessionInitFailed
    /\ callKind = "none"

IsPrefix(a, b) == Len(a) <= Len(b) /\ SubSeq(b, 1, Len(a)) = a

Hello == <<"h", "e", "l", "l", "o">>

\* C12: within one mounted Chat instance every step leaves the message log as
\* it was or appends exactly one message to it; an accepted send appends the
\* trimmed input as a user message, an answered request appends one assistant
\* message with the reply; and the first exchange, sending ' hello ' and being
\* answered 'hi there', leaves the log [user 'hello', assistant 'hi there'].
C12_LogAppendOnly ==
    [][ chatKey' = chatKey =>
          /\ \/ messages' = messages
             \/ Len(messages') = Len(messages) + 1 /\ IsPrefix(messages, messages')
          /\ (last' = <<"handleSend", "accepted">> =>
                messages' = Append(messages, [role |-> "user", content |-> Trim(input)]))
          /\ (last' = <<"chat", "reply">> =>
                messages' = Append(messages, [role |-> "assistant", content |-> <<"hi there">>]))
          /\ (last' = <<"chat", "reply">> /\ Len(messages) = 1 =>
                messages' = << [role |-> "user", content |-> Hello],
                               [role |-> "assistant", content |-> <<"hi there">>] >>) ]_vars

\* the exchange of the scenario has taken place
C12_Witness ==
    /\ last = <<"chat", "reply">>
    /\ sessionId = "abc"
    /\ messages = << [role |-> "user", content |-> Hello],
                     [role |-> "assistant", content |-> <<"hi there">>] >>


\* C13 as stated: whenever a send is triggered with non-empty input (here even
\* non-blank input, on a controller that is neither initializing nor loading),
\* the attachment list is empty afterwards.
C13_EverySendClears ==
    [][ last'[1] = "handleSend" /\ Trim(input) # <<>>
        /\ ~sessionInitializing /\ ~loading =>
          attachments' = <<>> ]_vars

\* C13: a send that is accepted (non-blank input, not loading, session handle
\* present) empties the attachment list whatever it held; a send that is
\* refused leaves the list as it was; and the settling of the chat request,
\* successful or not, does not touch the list.
C13_AcceptedSendClears ==
    [][ /\ (last'[1] = "handleSend" =>
              IF Trim(input) # <<>> /\ ~loading /\ sessionId # None
                THEN attachments' = <<>> /\ last'[2] = "accepted"
                ELSE attachments' = attachments /\ last'[2] # "accepted")
        /\ (last'[1] = "chat" => attachments' = attachments) ]_vars

\* a request is in flight after a send, and the attachment list is empty
C13_Witness ==
    /\ last = <<"handleSend", "accepted">>
    /\ loading /\ callKind = "chat"
    /\ attachments = <<>>


\* the entries a step added at the end of the attachment list
Added == SubSeq(attachments', Len(attachments) + 1, Len(attachments'))

\* C14: a file selection adds, in order, one metadata entry (id, name, size,
\* type) for each file it handles, which are the first five of the selection,
\* whether or not the file's text is read; an entry carries text only if the
\* file is at most 204800 bytes and its MIME type is text/plain,
\* application/json or text/markdown or its name ends in .txt, .md or .json
\* (in any case); the text carried is at most 8000 characters long; and a
\* 300 KB .txt file is listed without text.
C14_MetadataForEveryFile ==
    [][ \A fl \in FileBatches, now \in Times : onSelectFiles(fl, now) =>
          /\ Len(attachments') = Len(attachments) + (IF Len(fl) <= 5 THEN Len(fl) ELSE 5)
          /\ IsPrefix(attachments, attachments')
          /\ \A k \in 1..Len(Added) :
               LET f == fl[k]
                   a == Added[k]
               IN /\ a.id = <<now, k - 1, f.name>>
                  /\ a.name = f.name /\ a.size = f.size /\ a.type = f.type
                  /\ (a.text.has =>
                        /\ f.size <= 204800
                        /\ \/ f.type \in {"text/plain", "application/json", "text/markdown"}
                           \/ f.name.ext \in {"txt", "md", "json", "TXT", "MD", "JSON"}
                        /\ a.text.len <= 8000
                        /\ a.text.len <= f.textLen)
                  /\ (f.size = 300 * 1024 /\ f.name.ext = "txt" => ~a.text.has) ]_vars

\* the selection of six files has been handled: five entries, the 300 KB .txt
\* file among them without text, the 200 KB JSON file with 8000 characters
C14_Witness ==
    /\ Len(attachments) = 5
    /\ attachments[2].name = [base |-> "big", ext |-> "txt"]
    /\ attachments[2].size = 300 * 1024
    /\ ~attachments[2].text.has
    /\ attachments[3].text = [has |-> TRUE, len |-> 8000]
    /\ ~attachments[4].text.has


\* C15: the customizer creates the Top placeholder content at most once and
\* mounts the React tree at most once; a placeholder-changed event after a
\* successful onInit changes nothing once the content exists, creates and
\* mounts nothing while the placeholder is unavailable (so that the next event
\* tries again), and creates the content when the placeholder is available;
\* a disposal unmounts a mounted tree, once, and clears the container
\* reference, and a disposal that finds no container changes nothing.
C15_MountAtMostOnce ==
    [][ /\ createCalls' <= 1 /\ renderCalls' <= 1 /\ unmountCalls' <= 1
        /\ (treeMounted' <=> reactContainer' # None)
        /\ (changedEvents' # changedEvents /\ initResult = "resolved" =>
              IF topPlaceholder # None
                THEN UNCHANGED <<topPlaceholder, reactContainer, treeMounted,
                                 createCalls, renderCalls, unmountCalls>>
              ELSE IF ~placeholderAvailable
                THEN /\ topPlaceholder' = None /\ ~treeMounted'
                     /\ UNCHANGED <<createCalls, renderCalls>>
              ELSE /\ topPlaceholder' # None
                   /\ createCalls' = 1
                   /\ renderCalls' = (IF treeMounted' THEN 1 ELSE 0))
        /\ (disposeCalls' # disposeCalls =>
              /\ reactContainer' = None /\ ~treeMounted'
              /\ unmountCalls' = (IF reactContainer # None THEN unmountCalls + 1
                                                       ELSE unmountCalls)
              /\ UNCHANGED <<topPlaceholder, createCalls, renderCalls>>) ]_vars

\* after placeholder-changed events the tree was mounted once, and it has been
\* disposed of twice
C15_Witness ==
    /\ initResult = "resolved"
    /\ changedEvents = MaxEvents
    /\ createCalls = 1 /\ renderCalls = 1
    /\ disposeCalls = 2 /\ unmountCalls = 1
    /\ reactContainer = None /\ ~treeMounted
    /\ topPlaceholder = "content"

=============================================================================
